---- MODULE Spec2Model ----
(***************************************************************************)
(* Model of the multi-task progress engine of demo/pyside6/window.py:      *)
(* ProgressTask, ProgressManager (registry, timers, janitor, signals) and  *)
(* the parts of Window that touch task state (the legacy simulate-all      *)
(* path and its timer callback).                                           *)
(*                                                                         *)
(* Progress is a float in the source; here it is an integer number of      *)
(* thousandths (One = 1.0, Epsilon = 0.001).  Time is the value of         *)
(* time.time() in seconds.  Optional[float] = None is NoTime.              *)
(***************************************************************************)
EXTENDS Integers, Sequences, FiniteSets, TLC

\* ---------------------------------------------------------------- bounds
NumIds == 2          \* how many distinct values uuid4()[:8] may take
MaxSteps == 5        \* how many handlers run in one behaviour
MaxTime == 302       \* cap on the clock
MaxNest == 2         \* how many modal dialogs may be open inside one another
LiveTicks == 2       \* how many times the clock of the fair specification advances

\* ------------------------------------------------------ program constants
One == 1000              \* progress 1.0
Epsilon == 1             \* taskUpdated threshold 0.001
MinInc == 5              \* auto_progress_increment_range[0] = 0.005
MaxInc == 20             \* auto_progress_increment_range[1] = 0.02
CleanupInterval == 30    \* _cleanup_interval
Retention == 300         \* old_threshold = current_time - 300
NoTime == -1             \* None in start_time / completion_time

Ids == 1..NumIds
Statuses == {"created", "running", "paused", "completed", "failed", "cancelled"}
Modes == {"manual", "automatic"}
\* task.timer: None, a started QTimer wired to the manager's or the window's
\* callback, or a QTimer object that was stopped but is still referenced
TimerStates == {"none", "manager", "window", "stopped"}
ActiveTimers == {"manager", "window"}

\* values a caller passes to update_progress (thousandths), in and out of range
Values == {-1, 0, 1, 990, One, One + 1}
\* a progress argument that float() does not convert (a string that is no
\* number, None): float(progress) raises
BadValue == -1000000
\* the name argument of create_task: None (left out), the empty string, a name
NoName == "<None>"
Names == {NoName, "", "T1"}
\* no handler reads the name of a task: where the name is not the matter, the
\* caller passes this one
SomeName == "T1"
\* time.time() advances by one of these between two handlers
TimeSteps == {Retention + 1}

VARIABLES
  tasks,              \* ProgressManager.tasks: id -> ProgressTask
  last_cleanup_time,  \* ProgressManager._last_cleanup_time
  now,                \* time.time()
  lastOp,             \* the handler that ran last and its arguments
  result,             \* its return value
  events,             \* the signals it emitted, in order
  completions,        \* per id: taskCompleted emissions since the id was created (saturates at 2)
  steps,              \* handlers run so far
  disarmed,           \* per id: the disarming call (stop, switch to manual, complete, remove) that
                      \* returned last with no arming since, and the timer it found
  assigned,           \* the ids create_task has returned so far
  task_counter,       \* ProgressManager.task_counter
  stack               \* manager calls suspended in the exec() of a modal dialog that a slot of
                      \* the window opened, innermost last

vars == <<steps, tasks, last_cleanup_time, now, lastOp, result, events, completions, disarmed,
          assigned, task_counter, stack>>

\* ------------------------------------------------------------- helpers
Min(a, b) == IF a < b THEN a ELSE b
Max(a, b) == IF a > b THEN a ELSE b
Abs(a) == IF a < 0 THEN -a ELSE a

Ev(type, id, progress, mode) == [type |-> type, id |-> id, progress |-> progress, mode |-> mode]
EvTaskCreated(id) == Ev("TaskCreated", id, 0, "")
EvTaskUpdated(id, p) == Ev("TaskUpdated", id, p, "")
EvTaskCompleted(id) == Ev("TaskCompleted", id, 0, "")
EvTaskFailed(id) == Ev("TaskFailed", id, 0, "")
EvTaskModeChanged(id, m) == Ev("TaskModeChanged", id, 0, m)
EvAllTasksCompleted == Ev("AllTasksCompleted", 0, 0, "")

Op(op, id, value, force, mode) == [op |-> op, id |-> id, value |-> value, force |-> force, mode |-> mode]

Put(ts, id, t) == [i \in (DOMAIN ts) \cup {id} |-> IF i = id THEN t ELSE ts[i]]
Drop(ts, S) == [i \in (DOMAIN ts) \ S |-> ts[i]]

\* name or f"Task {self.task_counter}": None and "" both take the default
task_name(name, counter) ==
  IF name = NoName \/ name = "" THEN [text |-> "Task", n |-> counter]
  ELSE [text |-> name, n |-> 0]

\* ProgressTask(task_id, name, progress_mode): the dataclass defaults
NewTask(name, mode) ==
  [name |-> name, progress |-> 0, status |-> "created", progress_mode |-> mode,
   is_auto_running |-> FALSE, timer |-> "none",
   start_time |-> NoTime, completion_time |-> NoTime,
   error_message |-> "none", update_count |-> 0]

is_completed(t) == t.status = "completed"
is_running(t) == t.status = "running"
is_automatic_mode(t) == t.progress_mode = "automatic"
is_manual_mode(t) == t.progress_mode = "manual"

\* the clamp without its lower bound
Clamp_NoLowerBound(v) == Min(One, v)

\* max(0.0, min(1.0, float(progress)))
Clamp(v) == Max(0, Min(One, v))

get_active_tasks(ts) == {i \in DOMAIN ts : ~is_completed(ts[i])}
get_completed_tasks(ts) == {i \in DOMAIN ts : is_completed(ts[i])}
_all_tasks_completed(ts) == Cardinality(get_active_tasks(ts)) = 0

Out(ts, ev, ret) == [tasks |-> ts, events |-> ev, ret |-> ret]

\* _handle_task_error without the lookup of the task: taskFailed goes out for
\* an id that is not in the registry
_handle_task_error_NoLookup(ts, id) ==
  IF id \notin DOMAIN ts THEN Out(ts, <<EvTaskFailed(id)>>, FALSE)
  ELSE Out([ts EXCEPT ![id] = [@ EXCEPT !.status = "failed",
                                         !.error_message = "error",
                                         !.is_auto_running = FALSE,
                                         !.timer = IF @ = "none" THEN "none" ELSE "stopped"]],
           <<EvTaskFailed(id)>>, FALSE)

\* _handle_task_error that leaves the timer and is_auto_running as they are
_handle_task_error_KeepsRunning(ts, id) ==
  IF id \notin DOMAIN ts THEN Out(ts, <<>>, FALSE)
  ELSE Out([ts EXCEPT ![id] = [@ EXCEPT !.status = "failed", !.error_message = "error"]],
           <<EvTaskFailed(id)>>, FALSE)

\* _handle_task_error that clears is_auto_running and does not stop the timer
_handle_task_error_TimerRuns(ts, id) ==
  IF id \notin DOMAIN ts THEN Out(ts, <<>>, FALSE)
  ELSE Out([ts EXCEPT ![id] = [@ EXCEPT !.status = "failed",
                                         !.error_message = "error",
                                         !.is_auto_running = FALSE]],
           <<EvTaskFailed(id)>>, FALSE)

\* _handle_task_error that marks every task of the registry as failed
_handle_task_error_FailsAll(ts, id) ==
  IF id \notin DOMAIN ts THEN Out(ts, <<>>, FALSE)
  ELSE Out([i \in DOMAIN ts |-> [ts[i] EXCEPT !.status = "failed",
                                              !.error_message = "error",
                                              !.is_auto_running = FALSE,
                                              !.timer = IF @ = "none" THEN "none" ELSE "stopped"]],
           <<EvTaskFailed(id)>>, FALSE)

\* ProgressManager._handle_task_error
_handle_task_error(ts, id) ==
  IF id \notin DOMAIN ts THEN Out(ts, <<>>, FALSE)
  ELSE Out([ts EXCEPT ![id] = [@ EXCEPT !.status = "failed",
                                         !.error_message = "error",
                                         !.is_auto_running = FALSE,
                                         !.timer = IF @ = "none" THEN "none" ELSE "stopped"]],
           <<EvTaskFailed(id)>>, FALSE)

\* complete_task without the early return for a task that is already completed
complete_task_NoCompletedCheck(ts, id) ==
  IF id \notin DOMAIN ts THEN Out(ts, <<>>, FALSE)
  ELSE LET ts1 == [ts EXCEPT ![id] = [@ EXCEPT !.status = "completed",
                                                !.progress = One,
                                                !.completion_time = now,
                                                !.is_auto_running = FALSE,
                                                !.timer = "none"]]
           ev1 == <<EvTaskCompleted(id)>> \o
                  (IF _all_tasks_completed(ts1) THEN <<EvAllTasksCompleted>> ELSE <<>>)
       IN IF ts1[id].start_time = NoTime
          THEN LET h == _handle_task_error(ts1, id)
               IN Out(h.tasks, ev1 \o h.events, FALSE)
          ELSE Out(ts1, ev1, TRUE)

\* ProgressManager.complete_task.  task.duration is None while start_time is
\* None, and formatting it with :.2f raises; the except branch runs the error
\* handler and returns False.
complete_task(ts, id) ==
  IF id \notin DOMAIN ts THEN Out(ts, <<>>, FALSE)
  ELSE IF is_completed(ts[id]) THEN Out(ts, <<>>, TRUE)
  ELSE LET ts1 == [ts EXCEPT ![id] = [@ EXCEPT !.status = "completed",
                                                !.progress = One,
                                                !.completion_time = now,
                                                !.is_auto_running = FALSE,
                                                !.timer = "none"]]
           ev1 == <<EvTaskCompleted(id)>> \o
                  (IF _all_tasks_completed(ts1) THEN <<EvAllTasksCompleted>> ELSE <<>>)
       IN IF ts1[id].start_time = NoTime
          THEN LET h == _handle_task_error(ts1, id)
               IN Out(h.tasks, ev1 \o h.events, FALSE)
          ELSE Out(ts1, ev1, TRUE)

\* update_progress without the mode check of lines 289-292
update_progress_NoModeCheck(ts, id, value, force) ==
  IF id \notin DOMAIN ts THEN Out(ts, <<>>, FALSE)
  ELSE IF value = BadValue THEN _handle_task_error(ts, id)
  ELSE LET old == ts[id].progress
           p == Clamp(value)
           starts == ts[id].status = "created" /\ p > 0
           ts1 == [ts EXCEPT ![id] = [@ EXCEPT !.progress = p,
                                                !.update_count = @ + 1,
                                                !.status = IF starts THEN "running" ELSE @,
                                                !.start_time = IF starts THEN now ELSE @]]
           ev1 == IF Abs(old - p) > Epsilon THEN <<EvTaskUpdated(id, p)>> ELSE <<>>
       IN IF p >= One /\ ~is_completed(ts1[id])
          THEN LET c == complete_task(ts1, id)
               IN Out(c.tasks, ev1 \o c.events, TRUE)
          ELSE Out(ts1, ev1, TRUE)

\* update_progress that starts a created task on any value, 0.0 included
update_progress_StartsAtZero(ts, id, value, force) ==
  IF id \notin DOMAIN ts THEN Out(ts, <<>>, FALSE)
  ELSE IF ~force /\ is_automatic_mode(ts[id]) THEN Out(ts, <<>>, FALSE)
  ELSE IF value = BadValue THEN _handle_task_error(ts, id)
  ELSE LET old == ts[id].progress
           p == Clamp(value)
           starts == ts[id].status = "created" /\ p >= 0
           ts1 == [ts EXCEPT ![id] = [@ EXCEPT !.progress = p,
                                                !.update_count = @ + 1,
                                                !.status = IF starts THEN "running" ELSE @,
                                                !.start_time = IF starts THEN now ELSE @]]
           ev1 == IF Abs(old - p) > Epsilon THEN <<EvTaskUpdated(id, p)>> ELSE <<>>
       IN IF p >= One /\ ~is_completed(ts1[id])
          THEN LET c == complete_task(ts1, id)
               IN Out(c.tasks, ev1 \o c.events, TRUE)
          ELSE Out(ts1, ev1, TRUE)

\* update_progress that also emits taskUpdated for a change of exactly 0.001
update_progress_ThresholdInclusive(ts, id, value, force) ==
  IF id \notin DOMAIN ts THEN Out(ts, <<>>, FALSE)
  ELSE IF ~force /\ is_automatic_mode(ts[id]) THEN Out(ts, <<>>, FALSE)
  ELSE IF value = BadValue THEN _handle_task_error(ts, id)
  ELSE LET old == ts[id].progress
           p == Clamp(value)
           starts == ts[id].status = "created" /\ p > 0
           ts1 == [ts EXCEPT ![id] = [@ EXCEPT !.progress = p,
                                                !.update_count = @ + 1,
                                                !.status = IF starts THEN "running" ELSE @,
                                                !.start_time = IF starts THEN now ELSE @]]
           ev1 == IF Abs(old - p) >= Epsilon THEN <<EvTaskUpdated(id, p)>> ELSE <<>>
       IN IF p >= One /\ ~is_completed(ts1[id])
          THEN LET c == complete_task(ts1, id)
               IN Out(c.tasks, ev1 \o c.events, TRUE)
          ELSE Out(ts1, ev1, TRUE)

\* ProgressManager.update_progress
update_progress(ts, id, value, force) ==
  IF id \notin DOMAIN ts THEN Out(ts, <<>>, FALSE)
  ELSE IF ~force /\ is_automatic_mode(ts[id]) THEN Out(ts, <<>>, FALSE)
  ELSE IF value = BadValue THEN _handle_task_error(ts, id)
  ELSE LET old == ts[id].progress
           p == Clamp(value)
           starts == ts[id].status = "created" /\ p > 0
           ts1 == [ts EXCEPT ![id] = [@ EXCEPT !.progress = p,
                                                !.update_count = @ + 1,
                                                !.status = IF starts THEN "running" ELSE @,
                                                !.start_time = IF starts THEN now ELSE @]]
           ev1 == IF Abs(old - p) > Epsilon THEN <<EvTaskUpdated(id, p)>> ELSE <<>>
       IN IF p >= One /\ ~is_completed(ts1[id])
          THEN LET c == complete_task(ts1, id)
               IN Out(c.tasks, ev1 \o c.events, TRUE)
          ELSE Out(ts1, ev1, TRUE)

\* _start_auto_progress without the mode check of lines 344-346
_start_auto_progress_NoModeCheck(ts, id) ==
  IF id \notin DOMAIN ts \/ is_completed(ts[id]) THEN Out(ts, <<>>, FALSE)
  ELSE IF ts[id].is_auto_running THEN Out(ts, <<>>, TRUE)
  ELSE Out([ts EXCEPT ![id] = [@ EXCEPT !.timer = "manager",
                                         !.is_auto_running = TRUE,
                                         !.status = "running",
                                         !.start_time = IF @ = NoTime THEN now ELSE @]],
           <<>>, TRUE)

\* ProgressManager._start_auto_progress
_start_auto_progress(ts, id) ==
  IF id \notin DOMAIN ts \/ is_completed(ts[id]) THEN Out(ts, <<>>, FALSE)
  ELSE IF ~is_automatic_mode(ts[id]) THEN Out(ts, <<>>, FALSE)
  ELSE IF ts[id].is_auto_running THEN Out(ts, <<>>, TRUE)
  ELSE Out([ts EXCEPT ![id] = [@ EXCEPT !.timer = "manager",
                                         !.is_auto_running = TRUE,
                                         !.status = "running",
                                         !.start_time = IF @ = NoTime THEN now ELSE @]],
           <<>>, TRUE)

\* _stop_auto_progress that only clears the flag and leaves the QTimer running
_stop_auto_progress_FlagOnly(ts, id) ==
  IF id \notin DOMAIN ts THEN Out(ts, <<>>, FALSE)
  ELSE Out([ts EXCEPT ![id] = [@ EXCEPT !.is_auto_running = FALSE]], <<>>, TRUE)

\* ProgressManager._stop_auto_progress
_stop_auto_progress(ts, id) ==
  IF id \notin DOMAIN ts THEN Out(ts, <<>>, FALSE)
  ELSE Out([ts EXCEPT ![id] = [@ EXCEPT !.timer = "none", !.is_auto_running = FALSE]],
           <<>>, TRUE)

\* set_task_mode without the branch that starts the timer of a running task
set_task_mode_NoArm(ts, id, mode) ==
  IF id \notin DOMAIN ts THEN Out(ts, <<>>, FALSE)
  ELSE IF is_completed(ts[id]) THEN Out(ts, <<>>, FALSE)
  ELSE LET ts1 == [ts EXCEPT ![id] = [@ EXCEPT !.progress_mode = mode]]
           ts2 == IF mode = "manual" /\ ts1[id].is_auto_running
                    THEN _stop_auto_progress(ts1, id).tasks
                  ELSE ts1
       IN Out(ts2, <<EvTaskModeChanged(id, mode)>>, TRUE)

\* set_task_mode without the rejection of a completed task
set_task_mode_NoCompletedCheck(ts, id, mode) ==
  IF id \notin DOMAIN ts THEN Out(ts, <<>>, FALSE)
  ELSE LET ts1 == [ts EXCEPT ![id] = [@ EXCEPT !.progress_mode = mode]]
           ts2 == IF mode = "manual" /\ ts1[id].is_auto_running
                    THEN _stop_auto_progress(ts1, id).tasks
                  ELSE IF mode = "automatic" /\ is_running(ts1[id])
                    THEN _start_auto_progress(ts1, id).tasks
                  ELSE ts1
       IN Out(ts2, <<EvTaskModeChanged(id, mode)>>, TRUE)

\* ProgressManager.set_task_mode
set_task_mode(ts, id, mode) ==
  IF id \notin DOMAIN ts THEN Out(ts, <<>>, FALSE)
  ELSE IF is_completed(ts[id]) THEN Out(ts, <<>>, FALSE)
  ELSE LET ts1 == [ts EXCEPT ![id] = [@ EXCEPT !.progress_mode = mode]]
           ts2 == IF mode = "manual" /\ ts1[id].is_auto_running
                    THEN _stop_auto_progress(ts1, id).tasks
                  ELSE IF mode = "automatic" /\ is_running(ts1[id])
                    THEN _start_auto_progress(ts1, id).tasks
                  ELSE ts1
       IN Out(ts2, <<EvTaskModeChanged(id, mode)>>, TRUE)

\* remove_task that reports success without looking the task up
remove_task_NoLookup(ts, id) == Out(Drop(ts, {id}), <<>>, TRUE)

\* ProgressManager.remove_task
remove_task(ts, id) ==
  IF id \notin DOMAIN ts THEN Out(ts, <<>>, FALSE)
  ELSE Out(Drop(ts, {id}), <<>>, TRUE)

\* clear_completed that picks the tasks by progress 1.0 instead of by status
clear_completed_ByProgress(ts) ==
  LET completed_ids == {i \in DOMAIN ts : ts[i].progress >= One}
  IN Out(Drop(ts, {i \in completed_ids : remove_task(ts, i).ret}), <<>>,
         Cardinality({i \in completed_ids : remove_task(ts, i).ret}))

\* ProgressManager.clear_completed
clear_completed(ts) ==
  LET completed_ids == get_completed_tasks(ts)
  IN Out(Drop(ts, {i \in completed_ids : remove_task(ts, i).ret}), <<>>,
         Cardinality({i \in completed_ids : remove_task(ts, i).ret}))

\* _periodic_cleanup that also takes a task completed exactly 300 s ago
old_tasks_Inclusive(ts) ==
  {i \in get_completed_tasks(ts) :
     /\ ts[i].completion_time # NoTime /\ ts[i].completion_time # 0
     /\ ts[i].completion_time <= now - Retention}

\* ProgressManager._periodic_cleanup: the ids it removes (completion_time is
\* tested for truth first, so None and 0.0 are both skipped)
old_tasks(ts) ==
  {i \in get_completed_tasks(ts) :
     /\ ts[i].completion_time # NoTime /\ ts[i].completion_time # 0
     /\ ts[i].completion_time < now - Retention}

\* _update_auto_progress that does not look at is_auto_running
_update_auto_progress_NoFlagCheck(ts, id, base, factor) ==
  IF id \notin DOMAIN ts \/ is_completed(ts[id])
  THEN Out(ts, <<>>, FALSE)
  ELSE update_progress(ts, id, Min(One, ts[id].progress + base * factor), TRUE)

\* _update_auto_progress that calls update_progress without force
_update_auto_progress_Unforced(ts, id, base, factor) ==
  IF id \notin DOMAIN ts \/ is_completed(ts[id]) \/ ~ts[id].is_auto_running
  THEN Out(ts, <<>>, FALSE)
  ELSE update_progress(ts, id, Min(One, ts[id].progress + base * factor), FALSE)

\* ProgressManager._update_auto_progress: increment = uniform(min, max), then
\* with 5% chance 0 (factor 0) or with 5% chance doubled (factor 2)
_update_auto_progress(ts, id, base, factor) ==
  IF id \notin DOMAIN ts \/ is_completed(ts[id]) \/ ~ts[id].is_auto_running
  THEN Out(ts, <<>>, FALSE)
  ELSE update_progress(ts, id, Min(One, ts[id].progress + base * factor), TRUE)

\* ProgressManager.start_auto_progress_for_all: the tasks the loop arms
start_eligible(ts) ==
  {i \in DOMAIN ts : is_automatic_mode(ts[i]) /\ ~is_completed(ts[i]) /\ ~ts[i].is_auto_running}

\* Window._start_auto_progress (legacy): no mode check, status untouched
window_start_auto_progress(ts, id) ==
  IF id \notin DOMAIN ts \/ is_completed(ts[id]) THEN ts
  ELSE [ts EXCEPT ![id] = [@ EXCEPT !.timer = "window", !.is_auto_running = TRUE]]

\* Window._update_auto_progress (legacy): update_progress without force, then
\* the window itself clears the timer of a completed task
window_update_auto_progress(ts, id, inc) ==
  IF id \notin DOMAIN ts \/ is_completed(ts[id]) THEN Out(ts, <<>>, FALSE)
  ELSE LET u == update_progress(ts, id, ts[id].progress + inc, FALSE)
       IN IF id \in DOMAIN u.tasks /\ is_completed(u.tasks[id])
          THEN Out([u.tasks EXCEPT ![id] = [@ EXCEPT !.timer = "none", !.is_auto_running = FALSE]],
                   u.events, FALSE)
          ELSE Out(u.tasks, u.events, FALSE)

\* ---------------------------------------------------------- bookkeeping
CountCompleted(ev, i) ==
  Cardinality({k \in DOMAIN ev : ev[k].type = "TaskCompleted" /\ ev[k].id = i})
Completed(ev) == {i \in Ids : CountCompleted(ev, i) > 0}
\* ids whose timer went from not running to running in this step
NewlyArmed(ts, ts2) ==
  {i \in DOMAIN ts2 : ts2[i].timer \in ActiveTimers
                      /\ (i \notin DOMAIN ts \/ ts[i].timer \notin ActiveTimers)}
NotDisarmed == [by |-> "none", timer |-> "none"]
\* the disarming call `by` has returned for the ids of S
Disarm(by, S) ==
  [i \in Ids |-> IF i \in S /\ i \in DOMAIN tasks
                 THEN [by |-> by, timer |-> tasks[i].timer] ELSE disarmed[i]]
\* an arming call has armed the ids of S
Rearm(S) == [i \in Ids |-> IF i \in S THEN NotDisarmed ELSE disarmed[i]]

Emit(op, r, ret) ==
  /\ lastOp' = op
  /\ tasks' = r.tasks
  /\ events' = r.events
  /\ result' = ret
  /\ completions' = [i \in Ids |-> Min(2, completions[i] + CountCompleted(r.events, i))]
  /\ UNCHANGED <<assigned, task_counter>>

\* ------------------------------------------------------------- actions
Init ==
  /\ tasks = [i \in {} |-> NewTask(task_name(NoName, 0), "manual")]
  /\ now = 1
  /\ last_cleanup_time = 1
  /\ lastOp = Op("Init", 0, 0, FALSE, "")
  /\ result = FALSE
  /\ events = <<>>
  /\ completions = [i \in Ids |-> 0]
  /\ disarmed = [i \in Ids |-> NotDisarmed]
  /\ assigned = {}
  /\ task_counter = 0
  /\ stack = <<>>
  /\ steps = 0

\* ProgressManager.create_task; uuid4()[:8] is a draw from Ids
CreateTask(id, name, mode, auto_start) ==
  /\ lastOp' = Op("CreateTask", id, 0, auto_start, mode)
  /\ task_counter' = task_counter + 1
  /\ LET task == NewTask(task_name(name, task_counter'), mode)
     IN tasks' = Put(tasks, id, IF auto_start
                                 THEN [task EXCEPT !.status = "running", !.start_time = now]
                                 ELSE task)
  /\ events' = <<EvTaskCreated(id)>>
  /\ result' = id
  /\ completions' = [completions EXCEPT ![id] = 0]
  /\ disarmed' = Rearm({id})
  /\ assigned' = assigned \cup {id}
  /\ UNCHANGED <<last_cleanup_time, now>>

SetTaskMode(id, mode) ==
  LET r == set_task_mode(tasks, id, mode)
  IN /\ Emit(Op("SetTaskMode", id, 0, FALSE, mode), r, r.ret)
     /\ disarmed' = IF r.ret /\ mode = "manual" THEN Disarm("SetTaskMode", {id})
                    ELSE Rearm(NewlyArmed(tasks, r.tasks))
     /\ UNCHANGED <<last_cleanup_time, now>>

UpdateProgress(id, value, force) ==
  LET r == update_progress(tasks, id, value, force)
  IN /\ Emit(Op("UpdateProgress", id, value, force, ""), r, r.ret)
     /\ disarmed' = Disarm("CompleteTask", Completed(r.events))
     /\ UNCHANGED <<last_cleanup_time, now>>

StartAutoProgressForTask(id) ==
  LET r == _start_auto_progress(tasks, id)
  IN /\ Emit(Op("StartAutoProgressForTask", id, 0, FALSE, ""), r, r.ret)
     /\ disarmed' = Rearm(NewlyArmed(tasks, r.tasks))
     /\ UNCHANGED <<last_cleanup_time, now>>

StopAutoProgressForTask(id) ==
  LET r == _stop_auto_progress(tasks, id)
  IN /\ Emit(Op("StopAutoProgressForTask", id, 0, FALSE, ""), r, r.ret)
     /\ disarmed' = Disarm("StopAutoProgressForTask", {id})
     /\ UNCHANGED <<last_cleanup_time, now>>

StartAutoProgressForAll ==
  LET el == start_eligible(tasks)
      ts2 == [i \in DOMAIN tasks |-> IF i \in el THEN _start_auto_progress(tasks, i).tasks[i]
                                     ELSE tasks[i]]
      started_count == Cardinality({i \in el : _start_auto_progress(tasks, i).ret})
  IN /\ Emit(Op("StartAutoProgressForAll", 0, 0, FALSE, ""), Out(ts2, <<>>, FALSE), started_count)
     /\ disarmed' = Rearm(NewlyArmed(tasks, ts2))
     /\ UNCHANGED <<last_cleanup_time, now>>

StopAutoProgressForAll ==
  LET run == {i \in DOMAIN tasks : tasks[i].is_auto_running}
      ts2 == [i \in DOMAIN tasks |-> IF i \in run THEN _stop_auto_progress(tasks, i).tasks[i]
                                     ELSE tasks[i]]
      stopped_count == Cardinality({i \in run : _stop_auto_progress(tasks, i).ret})
  IN /\ Emit(Op("StopAutoProgressForAll", 0, 0, FALSE, ""), Out(ts2, <<>>, FALSE), stopped_count)
     /\ UNCHANGED <<last_cleanup_time, now, disarmed>>

CompleteTask(id) ==
  LET r == complete_task(tasks, id)
  IN /\ Emit(Op("CompleteTask", id, 0, FALSE, ""), r, r.ret)
     /\ disarmed' = Disarm("CompleteTask", {id})
     /\ UNCHANGED <<last_cleanup_time, now>>

RemoveTask(id) ==
  LET r == remove_task(tasks, id)
  IN /\ Emit(Op("RemoveTask", id, 0, FALSE, ""), r, r.ret)
     /\ disarmed' = Disarm("RemoveTask", {id})
     /\ UNCHANGED <<last_cleanup_time, now>>

ClearCompleted ==
  LET r == clear_completed(tasks)
  IN /\ Emit(Op("ClearCompleted", 0, 0, FALSE, ""), r, r.ret)
     /\ UNCHANGED <<last_cleanup_time, now, disarmed>>

\* _periodic_cleanup without the test of the cleanup interval
PeriodicCleanup_NoInterval ==
  /\ Emit(Op("PeriodicCleanup", 0, 0, FALSE, ""),
          Out(Drop(tasks, old_tasks(tasks)), <<>>, FALSE), 0)
  /\ last_cleanup_time' = now
  /\ UNCHANGED <<now, disarmed>>

\* ProgressManager._periodic_cleanup, the slot of _cleanup_timer
PeriodicCleanup ==
  IF now - last_cleanup_time < CleanupInterval
  THEN /\ Emit(Op("PeriodicCleanup", 0, 0, FALSE, ""), Out(tasks, <<>>, FALSE), 0)
       /\ UNCHANGED <<last_cleanup_time, now, disarmed>>
  ELSE /\ Emit(Op("PeriodicCleanup", 0, 0, FALSE, ""),
               Out(Drop(tasks, old_tasks(tasks)), <<>>, FALSE), 0)
       /\ last_cleanup_time' = now
       /\ UNCHANGED <<now, disarmed>>

\* timeout of a task's QTimer started by the manager
AutoTick(id, base, factor) ==
  /\ id \in DOMAIN tasks
  /\ tasks[id].timer = "manager"
  /\ LET r == _update_auto_progress(tasks, id, base, factor)
     IN /\ Emit(Op("AutoTick", id, base * factor, TRUE, ""), r, 0)
        /\ disarmed' = Disarm("CompleteTask", Completed(r.events))
  /\ UNCHANGED <<last_cleanup_time, now>>

\* Window.simulate_all_tasks (legacy)
SimulateAllTasks ==
  LET active == get_active_tasks(tasks)
      ts2 == [i \in DOMAIN tasks |->
                IF i \in active /\ ~tasks[i].is_auto_running /\ ~is_completed(tasks[i])
                THEN window_start_auto_progress(tasks, i)[i] ELSE tasks[i]]
  IN /\ Emit(Op("SimulateAllTasks", 0, 0, FALSE, ""), Out(ts2, <<>>, FALSE), 0)
     /\ disarmed' = Rearm(NewlyArmed(tasks, ts2))
     /\ UNCHANGED <<last_cleanup_time, now>>

\* timeout of a task's QTimer started by the window
WindowTick(id, inc) ==
  /\ id \in DOMAIN tasks
  /\ tasks[id].timer = "window"
  /\ LET r == window_update_auto_progress(tasks, id, inc)
     IN /\ Emit(Op("WindowTick", id, inc, FALSE, ""), r, 0)
        /\ disarmed' = Disarm("CompleteTask", Completed(r.events))
  /\ UNCHANGED <<last_cleanup_time, now>>

\* time.time() moves on between two handlers
Advance(d) ==
  /\ lastOp' = Op("Advance", 0, d, FALSE, "")
  /\ now + d <= MaxTime
  /\ now' = now + d
  /\ result' = 0
  /\ events' = <<>>
  /\ UNCHANGED <<tasks, last_cleanup_time, completions, disarmed, assigned, task_counter>>

\* one handler runs to completion per step (single-threaded event loop)
Handler(A) == steps < MaxSteps /\ steps' = steps + 1 /\ A /\ UNCHANGED stack

Next ==
  \/ \E id \in Ids, mode \in Modes, auto_start \in BOOLEAN :
       Handler(CreateTask(id, SomeName, mode, auto_start))
  \/ \E id \in Ids, mode \in Modes : Handler(SetTaskMode(id, mode))
  \/ \E id \in Ids, value \in Values, force \in BOOLEAN : Handler(UpdateProgress(id, value, force))
  \/ \E id \in Ids : Handler(StartAutoProgressForTask(id))
  \/ \E id \in Ids : Handler(StopAutoProgressForTask(id))
  \/ Handler(StartAutoProgressForAll)
  \/ Handler(StopAutoProgressForAll)
  \/ \E id \in Ids : Handler(CompleteTask(id))
  \/ \E id \in Ids : Handler(RemoveTask(id))
  \/ Handler(ClearCompleted)
  \/ Handler(PeriodicCleanup)
  \/ \E id \in Ids, base \in {MinInc, MaxInc}, factor \in 0..2 : Handler(AutoTick(id, base, factor))
  \/ Handler(SimulateAllTasks)
  \/ \E id \in Ids, inc \in {MinInc, MaxInc} : Handler(WindowTick(id, inc))
  \/ \E d \in TimeSteps : Handler(Advance(d))

Spec == Init /\ [][Next]_vars

TypeOK ==
  /\ DOMAIN tasks \subseteq Ids
  /\ \A i \in DOMAIN tasks :
       /\ tasks[i].status \in Statuses
       /\ tasks[i].progress_mode \in Modes
       /\ tasks[i].timer \in TimerStates
       /\ tasks[i].update_count \in 0..MaxSteps
  /\ now \in 1..MaxTime
  /\ steps \in 0..MaxSteps
  /\ assigned \subseteq Ids
  /\ DOMAIN tasks \subseteq assigned
  /\ Len(stack) <= MaxNest
  /\ task_counter \in 0..MaxSteps

\* ------------------------------------------------------- late ticks
\* a timeout of a task timer that reaches _update_auto_progress whatever has
\* happened to the task in the meantime: the slot is a lambda that holds the
\* id (line 354) and looks the task up when it runs (line 409), so it also
\* runs for a timeout that was posted before the timer was stopped and for
\* the timer of a task that create_task has replaced under the same id
LateTick(id, base, factor) ==
  /\ LET r == _update_auto_progress(tasks, id, base, factor)
     IN /\ Emit(Op("LateTick", id, base * factor, TRUE, ""), r, 0)
        /\ disarmed' = Disarm("CompleteTask", Completed(r.events))
  /\ UNCHANGED <<last_cleanup_time, now>>

TickNext ==
  \/ Next
  \/ \E id \in Ids, base \in {MinInc, MaxInc}, factor \in 0..2 :
       Handler(LateTick(id, base, factor))

TickSpec == Init /\ [][TickNext]_vars

\* ------------------------------------------------------- cleanup timer
\* the clock at the resolution the cleanup needs: below and at the cleanup
\* interval, at and just above the retention time
CleanupTimeSteps == {1, CleanupInterval, Retention, Retention + 1}

\* time passes between two handlers; it is no handler itself (two passages
\* of time in a row are one passage)
Tick(d) == lastOp.op # "Advance" /\ Advance(d) /\ UNCHANGED <<steps, stack>>

\* the handlers that create and complete tasks, the cleanup, and the clock
CleanupNext ==
  \/ \E id \in Ids, mode \in Modes, auto_start \in BOOLEAN :
       Handler(CreateTask(id, SomeName, mode, auto_start))
  \/ \E id \in Ids : Handler(CompleteTask(id))
  \/ Handler(PeriodicCleanup)
  \/ \E d \in CleanupTimeSteps : Tick(d)

CleanupSpec == Init /\ [][CleanupNext]_vars

\* ------------------------------------------------------- cleanup, fair
\* the clock of the fair specification advances in steps that take a
\* completed task past its retention time, LiveTicks times
LiveStep == Retention + 1
LiveMaxTime == 1 + LiveTicks * LiveStep

\* time passes
LiveTick ==
  /\ lastOp' = Op("Advance", 0, LiveStep, FALSE, "")
  /\ now + LiveStep <= LiveMaxTime
  /\ now' = now + LiveStep
  /\ result' = 0
  /\ events' = <<>>
  /\ UNCHANGED <<tasks, last_cleanup_time, completions, disarmed, assigned, task_counter,
                 steps, stack>>

\* timeout of _cleanup_timer; the timer is started in the constructor and is
\* never stopped, so its slot is not counted among the callers' handlers
CleanupTimeout == PeriodicCleanup /\ UNCHANGED <<steps, stack>>

\* callers create, update (also with a value that is no number) and complete
\* tasks and never remove one; the clock and the cleanup timer run
LiveNext ==
  \/ \E id \in Ids, mode \in Modes, auto_start \in BOOLEAN :
       Handler(CreateTask(id, SomeName, mode, auto_start))
  \/ \E id \in Ids, value \in {One, BadValue} : Handler(UpdateProgress(id, value, FALSE))
  \/ \E id \in Ids : Handler(CompleteTask(id))
  \/ CleanupTimeout
  \/ LiveTick

\* the event loop delivers the timeout of a running QTimer, and time passes
LiveSpec ==
  Init /\ [][LiveNext]_vars /\ WF_vars(CleanupTimeout) /\ WF_vars(LiveTick)

\* ------------------------------------------------------- armed tasks, fair
\* a timeout of the manager's task timer with the largest increment (0.02
\* doubled); a running QTimer keeps firing, so its timeouts are not counted
\* among the callers' handlers
ArmedAutoTick(id) == AutoTick(id, MaxInc, 2) /\ UNCHANGED <<steps, stack>>

\* a timeout of the timer the window started, with its largest increment
ArmedWindowTick(id) == WindowTick(id, MaxInc) /\ UNCHANGED <<steps, stack>>

\* callers create tasks and arm them on each of the four start paths; nobody
\* stops, switches to manual, completes or removes a task, and create_task
\* draws an id that is not in the registry
ArmedNext ==
  \/ \E id \in Ids \ DOMAIN tasks, mode \in Modes, auto_start \in BOOLEAN :
       Handler(CreateTask(id, SomeName, mode, auto_start))
  \/ \E id \in Ids : Handler(StartAutoProgressForTask(id))
  \/ Handler(StartAutoProgressForAll)
  \/ \E id \in Ids : Handler(SetTaskMode(id, "automatic"))
  \/ Handler(SimulateAllTasks)
  \/ \E id \in Ids : ArmedAutoTick(id)
  \/ \E id \in Ids : ArmedWindowTick(id)

\* the event loop delivers the timeouts of every running task timer
ArmedSpec ==
  /\ Init /\ [][ArmedNext]_vars
  /\ \A id \in Ids : WF_vars(ArmedAutoTick(id)) /\ WF_vars(ArmedWindowTick(id))

\* ------------------------------------------------------- failures
\* the handlers of Spec, and update_progress called with a value that float()
\* rejects
FailNext ==
  \/ Next
  \/ \E id \in Ids, force \in BOOLEAN : Handler(UpdateProgress(id, BadValue, force))

FailSpec == Init /\ [][FailNext]_vars

\* ------------------------------------------------------- task names
\* create_task with every kind of name argument, among the handlers that
\* bring the tasks it finds in the registry into their different states
NameNext ==
  \/ \E id \in Ids, name \in Names, mode \in Modes, auto_start \in BOOLEAN :
       Handler(CreateTask(id, name, mode, auto_start))
  \/ \E id \in Ids, value \in Values, force \in BOOLEAN : Handler(UpdateProgress(id, value, force))
  \/ \E id \in Ids : Handler(StartAutoProgressForTask(id))
  \/ \E id \in Ids : Handler(CompleteTask(id))
  \/ \E id \in Ids : Handler(RemoveTask(id))

NameSpec == Init /\ [][NameNext]_vars

\* The window's slots for taskCompleted, allTasksCompleted and taskFailed open
\* a QMessageBox and call exec(): the emit does not return until the dialog is
\* closed, and the event loop that exec() runs delivers timer events (task
\* timers, the cleanup timer) in the meantime.  The dialog is modal, so no
\* button of the window is served while it is open.
DialogSignals == {"TaskCompleted", "AllTasksCompleted", "TaskFailed"}
OpensDialog(ev) == \E k \in DOMAIN ev : ev[k].type \in DialogSignals

\* a complete_task call suspended in an emit: the handler that made the call,
\* the task, the signal it is emitting, and whether the task object it holds
\* has start_time None
Frame(outer, id, at, start_none) ==
  [outer |-> outer, id |-> id, at |-> at, start_none |-> start_none]

Opened(ts, ev, ret, opened) == [tasks |-> ts, events |-> ev, ret |-> ret, opened |-> opened]

\* complete_task up to the emit of taskCompleted
complete_task_open(ts, id) ==
  IF id \notin DOMAIN ts THEN Opened(ts, <<>>, FALSE, FALSE)
  ELSE IF is_completed(ts[id]) THEN Opened(ts, <<>>, TRUE, FALSE)
  ELSE Opened([ts EXCEPT ![id] = [@ EXCEPT !.status = "completed",
                                            !.progress = One,
                                            !.completion_time = now,
                                            !.is_auto_running = FALSE,
                                            !.timer = "none"]],
              <<EvTaskCompleted(id)>>, TRUE, TRUE)

\* update_progress up to the emit of taskCompleted, or to its return when it
\* does not complete the task
update_progress_open(ts, id, value, force) ==
  IF id \notin DOMAIN ts THEN Opened(ts, <<>>, FALSE, FALSE)
  ELSE IF ~force /\ is_automatic_mode(ts[id]) THEN Opened(ts, <<>>, FALSE, FALSE)
  ELSE IF value = BadValue
       THEN LET h == _handle_task_error(ts, id) IN Opened(h.tasks, h.events, FALSE, FALSE)
  ELSE LET old == ts[id].progress
           p == Clamp(value)
           starts == ts[id].status = "created" /\ p > 0
           ts1 == [ts EXCEPT ![id] = [@ EXCEPT !.progress = p,
                                                !.update_count = @ + 1,
                                                !.status = IF starts THEN "running" ELSE @,
                                                !.start_time = IF starts THEN now ELSE @]]
           ev1 == IF Abs(old - p) > Epsilon THEN <<EvTaskUpdated(id, p)>> ELSE <<>>
       IN IF p >= One /\ ~is_completed(ts1[id])
          THEN LET c == complete_task_open(ts1, id)
               IN Opened(c.tasks, ev1 \o c.events, TRUE, c.opened)
          ELSE Opened(ts1, ev1, TRUE, FALSE)

\* _update_auto_progress up to the emit of taskCompleted
_update_auto_progress_open(ts, id, base, factor) ==
  IF id \notin DOMAIN ts \/ is_completed(ts[id]) \/ ~ts[id].is_auto_running
  THEN Opened(ts, <<>>, FALSE, FALSE)
  ELSE update_progress_open(ts, id, Min(One, ts[id].progress + base * factor), TRUE)

\* Window._update_auto_progress up to the emit of taskCompleted
window_update_auto_progress_open(ts, id, inc) ==
  IF id \notin DOMAIN ts \/ is_completed(ts[id]) THEN Opened(ts, <<>>, FALSE, FALSE)
  ELSE update_progress_open(ts, id, ts[id].progress + inc, FALSE)

\* what the caller of complete_task does after it returns: update_progress
\* and the manager's tick return; the window's tick clears the timer of the
\* task object it holds when that is completed
after_complete_task(ts, f) ==
  IF f.outer = "WindowTick" /\ f.id \in DOMAIN ts /\ is_completed(ts[f.id])
  THEN [ts EXCEPT ![f.id] = [@ EXCEPT !.timer = "none", !.is_auto_running = FALSE]]
  ELSE ts

\* the value the suspended handler returns once complete_task returned ret
return_value(f, ret) ==
  IF f.outer = "CompleteTask" THEN ret
  ELSE IF f.outer = "UpdateProgress" THEN TRUE
  ELSE 0

\* complete_task from line 528 on: the log line raises when the duration is
\* None, and the except branch runs the error handler
complete_task_tail(ts, f) ==
  IF f.start_none
  THEN LET h == _handle_task_error(ts, f.id)
       IN IF OpensDialog(h.events)
          THEN [tasks |-> h.tasks, events |-> h.events, at |-> "TaskFailed", ret |-> FALSE]
          ELSE [tasks |-> after_complete_task(h.tasks, f), events |-> h.events,
                at |-> "return", ret |-> FALSE]
  ELSE [tasks |-> after_complete_task(ts, f), events |-> <<>>, at |-> "return", ret |-> TRUE]

\* the suspended call goes on when the dialog is closed, up to its next emit
\* that opens a dialog or to its return
resume(ts, f) ==
  IF f.at = "TaskCompleted"
  THEN IF _all_tasks_completed(ts)
       THEN [tasks |-> ts, events |-> <<EvAllTasksCompleted>>, at |-> "AllTasksCompleted",
             ret |-> TRUE]
       ELSE complete_task_tail(ts, f)
  ELSE IF f.at = "AllTasksCompleted" THEN complete_task_tail(ts, f)
  ELSE [tasks |-> after_complete_task(ts, f), events |-> <<>>, at |-> "return", ret |-> FALSE]

\* a handler that reaches the emit of taskCompleted; the timer of the task is
\* released before the emit.  r is the state at the emit, id the task.
Open(op, id, r) ==
  /\ r.opened
  /\ Len(stack) < MaxNest
  /\ steps < MaxSteps
  /\ steps' = steps + 1
  /\ Emit(op, Out(r.tasks, r.events, r.ret), result)
  /\ disarmed' = Disarm("CompleteTask", {id})
  /\ stack' = Append(stack, Frame(op.op, id, "TaskCompleted", r.tasks[id].start_time = NoTime))
  /\ UNCHANGED <<last_cleanup_time, now>>

OpenCompleteTask(id) ==
  /\ stack = <<>>
  /\ Open(Op("CompleteTask", id, 0, FALSE, ""), id, complete_task_open(tasks, id))

OpenUpdateProgress(id, value, force) ==
  /\ stack = <<>>
  /\ Open(Op("UpdateProgress", id, value, force, ""), id,
          update_progress_open(tasks, id, value, force))

OpenAutoTick(id, base, factor) ==
  /\ id \in DOMAIN tasks
  /\ tasks[id].timer = "manager"
  /\ Open(Op("AutoTick", id, base * factor, TRUE, ""), id,
          _update_auto_progress_open(tasks, id, base, factor))

OpenWindowTick(id, inc) ==
  /\ id \in DOMAIN tasks
  /\ tasks[id].timer = "window"
  /\ Open(Op("WindowTick", id, inc, FALSE, ""), id,
          window_update_auto_progress_open(tasks, id, inc))

\* the innermost dialog is closed
CloseDialog ==
  /\ stack # <<>>
  /\ LET f == stack[Len(stack)]
         c == resume(tasks, f)
     IN /\ lastOp' = Op("CloseDialog", f.id, 0, f.start_none, f.at)
        /\ tasks' = c.tasks
        /\ events' = c.events
        /\ stack' = IF c.at = "return" THEN SubSeq(stack, 1, Len(stack) - 1)
                    ELSE [stack EXCEPT ![Len(stack)] = [f EXCEPT !.at = c.at]]
        /\ result' = IF c.at = "return" THEN return_value(f, c.ret) ELSE result
  /\ UNCHANGED <<steps, last_cleanup_time, now, completions, disarmed, assigned, task_counter>>

\* a handler that runs to its return without opening a dialog
Quiet(A) == Handler(A) /\ ~OpensDialog(events')

\* what a caller or a button of the window may run while no dialog is open
Calls ==
  \/ \E id \in Ids, mode \in Modes, auto_start \in BOOLEAN :
       Quiet(CreateTask(id, SomeName, mode, auto_start))
  \/ \E id \in Ids, mode \in Modes : Quiet(SetTaskMode(id, mode))
  \/ \E id \in Ids, value \in Values, force \in BOOLEAN : Quiet(UpdateProgress(id, value, force))
  \/ \E id \in Ids : Quiet(StartAutoProgressForTask(id))
  \/ \E id \in Ids : Quiet(StopAutoProgressForTask(id))
  \/ Quiet(StartAutoProgressForAll)
  \/ Quiet(StopAutoProgressForAll)
  \/ \E id \in Ids : Quiet(CompleteTask(id))
  \/ \E id \in Ids : Quiet(RemoveTask(id))
  \/ Quiet(ClearCompleted)
  \/ Quiet(SimulateAllTasks)
  \/ \E id \in Ids : OpenCompleteTask(id)
  \/ \E id \in Ids, value \in Values, force \in BOOLEAN : OpenUpdateProgress(id, value, force)

\* what the event loop delivers whether a dialog is open or not
Timers ==
  \/ Quiet(PeriodicCleanup)
  \/ \E id \in Ids, base \in {MinInc, MaxInc}, factor \in 0..2 : Quiet(AutoTick(id, base, factor))
  \/ \E id \in Ids, inc \in {MinInc, MaxInc} : Quiet(WindowTick(id, inc))
  \/ \E d \in TimeSteps : Quiet(Advance(d))
  \/ \E id \in Ids, base \in {MinInc, MaxInc}, factor \in 0..2 : OpenAutoTick(id, base, factor)
  \/ \E id \in Ids, inc \in {MinInc, MaxInc} : OpenWindowTick(id, inc)

ModalNext ==
  \/ stack = <<>> /\ Calls
  \/ Timers
  \/ CloseDialog

ModalSpec == Init /\ [][ModalNext]_vars

\* --------------------------------------- set_task_mode, by statement
\* set_task_mode from the lookup to the assignment of the mode (lines
\* 230-240); it is only used on a task that passes the two checks
set_task_mode_assign(ts, id, mode) ==
  [ts EXCEPT ![id] = [@ EXCEPT !.progress_mode = mode]]

\* set_task_mode from the branch on the new mode to the return (lines
\* 243-252)
set_task_mode_branch(ts, id, mode) ==
  LET ts2 == IF mode = "manual" /\ ts[id].is_auto_running
               THEN _stop_auto_progress(ts, id).tasks
             ELSE IF mode = "automatic" /\ is_running(ts[id])
               THEN _start_auto_progress(ts, id).tasks
             ELSE ts
  IN Out(ts2, <<EvTaskModeChanged(id, mode)>>, TRUE)

\* a set_task_mode call that fails one of its checks and returns False
SetTaskModeRejected(id, mode) ==
  /\ ~set_task_mode(tasks, id, mode).ret
  /\ SetTaskMode(id, mode)

\* a set_task_mode call passes its checks and assigns the mode; the call is
\* now between line 240 and line 243
SetTaskModeAssign(id, mode) ==
  /\ stack = <<>>
  /\ steps < MaxSteps
  /\ steps' = steps + 1
  /\ id \in DOMAIN tasks
  /\ ~is_completed(tasks[id])
  /\ lastOp' = Op("SetTaskModeAssign", id, 0, FALSE, mode)
  /\ tasks' = set_task_mode_assign(tasks, id, mode)
  /\ events' = <<>>
  /\ stack' = <<Frame("SetTaskMode", id, "line 243", FALSE)>>
  /\ UNCHANGED <<result, last_cleanup_time, now, completions, disarmed, assigned, task_counter>>

\* the call goes on from line 243 to its return
SetTaskModeBranch ==
  /\ stack # <<>>
  /\ stack[1].outer = "SetTaskMode"
  /\ LET id == stack[1].id
         mode == tasks[id].progress_mode
         r == set_task_mode_branch(tasks, id, mode)
     IN /\ Emit(Op("SetTaskMode", id, 0, FALSE, mode), r, r.ret)
        /\ disarmed' = IF mode = "manual" THEN Disarm("SetTaskMode", {id})
                       ELSE Rearm(NewlyArmed(tasks, r.tasks))
  /\ stack' = <<>>
  /\ UNCHANGED <<steps, last_cleanup_time, now>>

\* nothing else runs while set_task_mode is between two of its statements:
\* it emits no signal and enters no event loop before line 250
StmtNext ==
  \/ /\ stack = <<>>
     /\ \/ \E id \in Ids, mode \in Modes, auto_start \in BOOLEAN :
             Handler(CreateTask(id, SomeName, mode, auto_start))
        \/ \E id \in Ids, value \in Values, force \in BOOLEAN :
             Handler(UpdateProgress(id, value, force))
        \/ \E id \in Ids : Handler(StartAutoProgressForTask(id))
        \/ \E id \in Ids : Handler(StopAutoProgressForTask(id))
        \/ \E id \in Ids : Handler(CompleteTask(id))
        \/ \E id \in Ids, base \in {MinInc, MaxInc}, factor \in 0..2 :
             Handler(AutoTick(id, base, factor))
        \/ \E id \in Ids, mode \in Modes : Handler(SetTaskModeRejected(id, mode))
  \/ \E id \in Ids, mode \in Modes : SetTaskModeAssign(id, mode)
  \/ SetTaskModeBranch

StmtSpec == Init /\ [][StmtNext]_vars

\* ================================================================ claims
Terminal == {"completed", "failed", "cancelled"}
TickOps == {"AutoTick", "WindowTick"}
IsDisarmed(i) == disarmed[i].by # "none"
Emitted(ev, type, i) == \E k \in DOMAIN ev : ev[k].type = type /\ ev[k].id = i

\* C1: every task of the registry has 0.0 <= progress <= 1.0 after every
\* handler, and an update_progress call that is accepted (task found, manual
\* mode or force) returns True and stores the value clamped to [0.0, 1.0],
\* whether the value was in range or not.
C1_ProgressClamped ==
  [][/\ \A i \in DOMAIN tasks' : tasks'[i].progress >= 0 /\ tasks'[i].progress <= One
     /\ \A id \in Ids, v \in Values, f \in BOOLEAN :
          (UpdateProgress(id, v, f) /\ id \in DOMAIN tasks /\ (f \/ is_manual_mode(tasks[id])))
          => /\ result' = TRUE
             /\ id \in DOMAIN tasks'
             /\ tasks'[id].progress = (IF v < 0 THEN 0 ELSE IF v > One THEN One ELSE v)]_vars

\* an out-of-range value was passed to update_progress, accepted and stored
C1_Witness ==
  /\ lastOp.op = "UpdateProgress" /\ result = TRUE
  /\ lastOp.id \in DOMAIN tasks
  /\ \/ lastOp.value < 0 /\ tasks[lastOp.id].progress = 0
     \/ lastOp.value > One /\ tasks[lastOp.id].progress = One

\* C2: is_auto_running implies automatic mode and a status other than completed.
C2_AutoRunningInvariant ==
  \A i \in DOMAIN tasks :
    tasks[i].is_auto_running => (is_automatic_mode(tasks[i]) /\ ~is_completed(tasks[i]))

\* C3: once a task's status is completed, failed or cancelled, no handler
\* changes the status of that task while it stays in the registry (a
\* create_task that draws the same id installs another task).
C3_TerminalStatus ==
  [][\A i \in DOMAIN tasks :
       (tasks[i].status \in Terminal /\ i \in DOMAIN tasks'
        /\ ~(lastOp'.op = "CreateTask" /\ lastOp'.id = i))
       => tasks'[i].status = tasks[i].status]_vars

\* C4: no timer tick is delivered for a task for which a disarming call
\* (stop_auto_progress_for_task, set_task_mode to manual, complete_task,
\* remove_task) has returned and that was not armed again; such a task holds
\* no running timer and is not flagged as auto running.
C4_NoTickAfterDisarm ==
  [][/\ (lastOp'.op \in TickOps) => ~IsDisarmed(lastOp'.id)
     /\ \A i \in DOMAIN tasks' :
          IsDisarmed(i)' => (tasks'[i].timer \notin ActiveTimers /\ ~tasks'[i].is_auto_running)]_vars

\* a running timer was stopped by a disarming call, and a tick of another
\* task's timer has been delivered since
C4_Witness ==
  \E i \in DOMAIN tasks :
    /\ disarmed[i].by = "StopAutoProgressForTask"
    /\ disarmed[i].timer = "manager"
    /\ lastOp.op = "AutoTick" /\ lastOp.id # i

\* C5: taskCompleted is emitted at most once for a task.
C5_CompletedOnce == \A i \in Ids : completions[i] <= 1

\* C6: complete_task on a task of the registry that is not completed returns
\* True and leaves it completed with progress 1.0, completion_time set, not
\* auto running, without timer, having emitted taskCompleted.
C6_CompleteTask ==
  [][\A id \in Ids :
       (CompleteTask(id) /\ id \in DOMAIN tasks /\ ~is_completed(tasks[id]))
       => /\ result' = TRUE
          /\ id \in DOMAIN tasks'
          /\ is_completed(tasks'[id])
          /\ tasks'[id].progress = One
          /\ tasks'[id].completion_time # NoTime
          /\ ~tasks'[id].is_auto_running
          /\ tasks'[id].timer = "none"
          /\ Emitted(events', "TaskCompleted", id)]_vars

\* C7: complete_task on a task that is already completed returns True,
\* changes no task and emits no signal.
C7_CompleteIdempotent ==
  [][\A id \in Ids :
       (CompleteTask(id) /\ id \in DOMAIN tasks /\ is_completed(tasks[id]))
       => (result' = TRUE /\ tasks' = tasks /\ events' = <<>>)]_vars

\* complete_task was called on a completed task while another task was active
C7_Witness ==
  /\ lastOp.op = "CompleteTask" /\ result = TRUE /\ events = <<>>
  /\ lastOp.id \in DOMAIN tasks
  /\ is_completed(tasks[lastOp.id])
  /\ completions[lastOp.id] = 1
  /\ \E j \in DOMAIN tasks : j # lastOp.id /\ ~is_completed(tasks[j])

\* C8: update_progress with value 1.0 on a completed task leaves it completed
\* with progress 1.0 and emits no taskCompleted.
C8_UpdateAtBoundary ==
  [][\A id \in Ids, f \in BOOLEAN :
       (UpdateProgress(id, One, f) /\ id \in DOMAIN tasks /\ is_completed(tasks[id]))
       => /\ id \in DOMAIN tasks'
          /\ is_completed(tasks'[id])
          /\ tasks'[id].progress = One
          /\ ~Emitted(events', "TaskCompleted", id)]_vars

\* C9: update_progress without force on a task in automatic mode returns
\* False, changes no task and emits no signal, whatever the value and status.
C9_ManualUpdateRejected ==
  [][\A id \in Ids, v \in Values :
       (UpdateProgress(id, v, FALSE) /\ id \in DOMAIN tasks /\ is_automatic_mode(tasks[id]))
       => (result' = FALSE /\ tasks' = tasks /\ events' = <<>>)]_vars

\* an unforced update was rejected for a running automatic task
C9_Witness ==
  /\ lastOp.op = "UpdateProgress" /\ ~lastOp.force /\ result = FALSE
  /\ lastOp.id \in DOMAIN tasks
  /\ is_automatic_mode(tasks[lastOp.id])
  /\ tasks[lastOp.id].is_auto_running
  /\ tasks[lastOp.id].progress > 0

\* C10: start_auto_progress_for_task on a task in manual mode or completed
\* returns False and changes no task; a successful set_task_mode to manual
\* leaves the task without running timer and not auto running, so the start
\* call that follows arms nothing.
C10_StartRejected ==
  [][/\ \A id \in Ids :
          (StartAutoProgressForTask(id) /\ id \in DOMAIN tasks
           /\ (is_manual_mode(tasks[id]) \/ is_completed(tasks[id])))
          => (result' = FALSE /\ tasks' = tasks)
     /\ \A id \in Ids :
          (SetTaskMode(id, "manual") /\ result' = TRUE)
          => (~tasks'[id].is_auto_running /\ tasks'[id].timer \notin ActiveTimers)]_vars

\* a running automatic task armed by the manager was switched to manual and
\* the start call that followed was rejected
C10_Witness ==
  /\ lastOp.op = "StartAutoProgressForTask" /\ result = FALSE
  /\ lastOp.id \in DOMAIN tasks
  /\ disarmed[lastOp.id].by = "SetTaskMode"
  /\ disarmed[lastOp.id].timer = "manager"
  /\ is_manual_mode(tasks[lastOp.id])
  /\ is_running(tasks[lastOp.id])
  /\ ~tasks[lastOp.id].is_auto_running
  /\ tasks[lastOp.id].timer = "none"

\* C11: create_task never returns an id that is in the registry or that it
\* returned before, and an id whose task was removed never resolves to a task
\* again.
C11_IdsNeverReused ==
  [][/\ (lastOp'.op = "CreateTask") => (lastOp'.id \notin DOMAIN tasks /\ lastOp'.id \notin assigned)
     /\ \A i \in assigned \ DOMAIN tasks : i \notin DOMAIN tasks']_vars

\* C12: a complete_task call that completes a task emits allTasksCompleted
\* exactly when every other task of the registry has a terminal status
\* (completed, failed or cancelled).
C12_AllTasksCompleted ==
  [][\A id \in Ids :
       (CompleteTask(id) /\ id \in DOMAIN tasks /\ ~is_completed(tasks[id]))
       => (Emitted(events', "AllTasksCompleted", 0)
           <=> \A j \in DOMAIN tasks \ {id} : tasks[j].status \in Terminal)]_vars

\* C13: an update_progress call (made by a caller or by a timer tick) that is
\* accepted for a task that is not completed and brings its progress to 1.0
\* leaves the task completed, and its signals are taskUpdated (when emitted),
\* then taskCompleted, then allTasksCompleted (when emitted), and no other.
C13_CompletesInOrder ==
  [][LET id == lastOp'.id
         U == EvTaskUpdated(id, One)
         C == EvTaskCompleted(id)
         A == EvAllTasksCompleted
     IN (/\ lastOp'.op \in {"UpdateProgress", "AutoTick", "WindowTick"}
         /\ id \in DOMAIN tasks /\ id \in DOMAIN tasks'
         /\ ~is_completed(tasks[id])
         /\ tasks'[id].update_count = tasks[id].update_count + 1
         /\ tasks'[id].progress = One)
        => /\ is_completed(tasks'[id])
           /\ events' \in {<<U, C>>, <<C>>, <<U, C, A>>, <<C, A>>}]_vars

\* the signals that carry a task id and concern an existing task
IdSignals == {"TaskUpdated", "TaskCompleted", "TaskFailed", "TaskModeChanged"}

\* C14: every taskUpdated, taskCompleted, taskFailed and taskModeChanged signal
\* carries the id of a task that is in the registry when it is emitted; none
\* goes out for a task that was removed, also when the task is removed while
\* a dialog of the call that is completing it is open.
C14_NoEventAfterRemoval ==
  \A k \in DOMAIN events :
    events[k].type \in IdSignals => events[k].id \in DOMAIN tasks

\* the task was removed while the dialog of its complete_task call was open,
\* and the call went on to its error handler after the dialog was closed
C14_Witness ==
  /\ lastOp.op = "CloseDialog"
  /\ lastOp.force
  /\ lastOp.mode \in {"TaskCompleted", "AllTasksCompleted"}
  /\ lastOp.id \in assigned \ DOMAIN tasks
  /\ stack = <<>>
  /\ result = FALSE

\* C15: while a manager call has started and not returned, no timer tick,
\* cleanup or other call changes a task or the registry.
C15_Serialized ==
  [][(stack # <<>> /\ lastOp'.op # "CloseDialog") => tasks' = tasks]_vars

\* C16: start_auto_progress_for_all arms exactly the tasks that are automatic,
\* not completed and not auto running, and returns their number;
\* stop_auto_progress_for_all disarms exactly the tasks that are auto running
\* and returns their number, and leaves no task armed; neither changes a task
\* in manual mode.
C16_BulkStartStop ==
  [][/\ StartAutoProgressForAll =>
          LET el == {i \in DOMAIN tasks : /\ is_automatic_mode(tasks[i]) /\ ~is_completed(tasks[i])
                                          /\ ~tasks[i].is_auto_running}
          IN /\ result' = Cardinality(el)
             /\ DOMAIN tasks' = DOMAIN tasks
             /\ \A i \in el : tasks'[i].is_auto_running /\ tasks'[i].timer \in ActiveTimers
             /\ \A i \in DOMAIN tasks \ el : tasks'[i] = tasks[i]
     /\ StopAutoProgressForAll =>
          LET run == {i \in DOMAIN tasks : tasks[i].is_auto_running}
          IN /\ result' = Cardinality(run)
             /\ DOMAIN tasks' = DOMAIN tasks
             /\ \A i \in DOMAIN tasks :
                  ~tasks'[i].is_auto_running /\ tasks'[i].timer \notin ActiveTimers
             /\ \A i \in DOMAIN tasks \ run : tasks'[i] = tasks[i]
     /\ (StartAutoProgressForAll \/ StopAutoProgressForAll) =>
          \A i \in DOMAIN tasks : is_manual_mode(tasks[i]) => tasks'[i] = tasks[i]]_vars

\* C17: clear_completed removes exactly the tasks whose status is completed
\* when it is called, returns their number and leaves every other task in the
\* registry under its id with all fields unchanged.
C17_ClearCompleted ==
  [][ClearCompleted =>
       LET done == {i \in DOMAIN tasks : tasks[i].status = "completed"}
       IN /\ result' = Cardinality(done)
          /\ DOMAIN tasks' = DOMAIN tasks \ done
          /\ \A i \in DOMAIN tasks' : tasks'[i] = tasks[i]]_vars

\* clear_completed removed a completed task and kept one that is not completed
C17_Witness ==
  /\ lastOp.op = "ClearCompleted"
  /\ result >= 1
  /\ \E i \in assigned : i \notin DOMAIN tasks
  /\ \E j \in DOMAIN tasks : ~is_completed(tasks[j])

\* C18: remove_task on a task of the registry deletes it together with its
\* timer and returns True, after which the id is not found; on an id that is
\* not in the registry it returns False, emits no signal and changes nothing.
C18_RemoveTask ==
  [][\A id \in Ids :
       RemoveTask(id) =>
         IF id \in DOMAIN tasks
         THEN /\ result' = TRUE
              /\ DOMAIN tasks' = DOMAIN tasks \ {id}
              /\ \A j \in DOMAIN tasks' : tasks'[j] = tasks[j]
              /\ IsDisarmed(id)'
         ELSE /\ result' = FALSE
              /\ events' = <<>>
              /\ tasks' = tasks]_vars

\* a task with a running timer was removed while another task stayed, and a
\* second remove_task for the same id found nothing
C18_Witness ==
  /\ lastOp.op = "RemoveTask"
  /\ result = FALSE
  /\ lastOp.id \in assigned \ DOMAIN tasks
  /\ disarmed[lastOp.id].by = "RemoveTask"
  /\ disarmed[lastOp.id].timer \in ActiveTimers
  /\ DOMAIN tasks # {}

\* C19: right after create_task(name, mode, auto_start) the returned id
\* resolves to a task with the name and mode that were passed, progress 0.0,
\* not auto running, status created, or running with start_time set when
\* auto_start is set; taskCreated is emitted once and no task that was in the
\* registry is changed.
C19_CreateRoundTrip ==
  [][\A id \in Ids, name \in Names, mode \in Modes, auto_start \in BOOLEAN :
       CreateTask(id, name, mode, auto_start)
       => /\ result' = id
          /\ id \in DOMAIN tasks'
          /\ (name # NoName) => tasks'[id].name = [text |-> name, n |-> 0]
          /\ tasks'[id].progress_mode = mode
          /\ tasks'[id].progress = 0
          /\ ~tasks'[id].is_auto_running
          /\ IF auto_start
             THEN tasks'[id].status = "running" /\ tasks'[id].start_time # NoTime
             ELSE tasks'[id].status = "created"
          /\ events' = <<EvTaskCreated(id)>>
          /\ \A j \in DOMAIN tasks : j \in DOMAIN tasks' /\ tasks'[j] = tasks[j]]_vars

\* C20: set_task_mode on an id that is not in the registry or on a completed
\* task returns False, emits no signal and changes no task (mode,
\* is_auto_running and timer included).
C20_SetModeRejected ==
  [][\A id \in Ids, mode \in Modes :
       (SetTaskMode(id, mode) /\ (id \notin DOMAIN tasks \/ is_completed(tasks[id])))
       => (result' = FALSE /\ events' = <<>> /\ tasks' = tasks)]_vars

\* set_task_mode was rejected for a completed task, asked to take the mode it
\* does not have
C20_Witness ==
  /\ lastOp.op = "SetTaskMode"
  /\ result = FALSE
  /\ lastOp.id \in DOMAIN tasks
  /\ is_completed(tasks[lastOp.id])
  /\ tasks[lastOp.id].progress_mode # lastOp.mode

\* C21: a successful set_task_mode to automatic on a running task leaves it
\* auto running with a running timer; a successful set_task_mode on a task
\* that is not running starts no timer and does not set is_auto_running; every
\* successful set_task_mode emits taskModeChanged once, with the new mode, and
\* nothing else.
C21_SetModeArms ==
  [][\A id \in Ids, mode \in Modes :
       (SetTaskMode(id, mode) /\ result' = TRUE)
       => /\ events' = <<EvTaskModeChanged(id, mode)>>
          /\ tasks'[id].progress_mode = mode
          /\ (mode = "automatic" /\ is_running(tasks[id]))
             => (tasks'[id].is_auto_running /\ tasks'[id].timer \in ActiveTimers)
          /\ ~is_running(tasks[id])
             => /\ NewlyArmed(tasks, tasks') = {}
                /\ tasks'[id].is_auto_running => tasks[id].is_auto_running]_vars

\* set_task_mode to automatic succeeded on a running task that has progress,
\* which is armed by the manager when the call returns
C21_Witness ==
  /\ lastOp.op = "SetTaskMode" /\ lastOp.mode = "automatic" /\ result = TRUE
  /\ lastOp.id \in DOMAIN tasks
  /\ tasks[lastOp.id].timer = "manager"
  /\ tasks[lastOp.id].is_auto_running
  /\ tasks[lastOp.id].progress > 0
  /\ events = <<EvTaskModeChanged(lastOp.id, "automatic")>>

ManagerOps ==
  {"CreateTask", "SetTaskMode", "UpdateProgress", "StartAutoProgressForTask",
   "StopAutoProgressForTask", "StartAutoProgressForAll", "StopAutoProgressForAll",
   "CompleteTask", "RemoveTask", "ClearCompleted", "PeriodicCleanup", "AutoTick", "WindowTick"}

\* C23: progress, status, mode, is_auto_running and timer of a task change
\* only in handlers where a method of the manager, or the timer callback the
\* manager installed, makes the write; code of the window writes none of them.
C23_OnlyManagerWrites ==
  [][\A i \in DOMAIN tasks \cap DOMAIN tasks' :
       (\/ tasks'[i].progress # tasks[i].progress
        \/ tasks'[i].status # tasks[i].status
        \/ tasks'[i].progress_mode # tasks[i].progress_mode
        \/ tasks'[i].is_auto_running # tasks[i].is_auto_running
        \/ tasks'[i].timer # tasks[i].timer)
       => lastOp'.op \in ManagerOps]_vars

\* the tasks that are Completed and were completed more than 300 s before now
Expired ==
  {i \in DOMAIN tasks :
     /\ tasks[i].status = "completed"
     /\ tasks[i].completion_time # NoTime
     /\ now - tasks[i].completion_time > Retention}

\* C24 as stated: every call of _periodic_cleanup removes exactly the tasks
\* that are Completed and whose completion_time is more than 300 s old, and
\* no other task
C24_SweepRemovesExactlyOld ==
  [][lastOp'.op = "PeriodicCleanup" => DOMAIN tasks' = (DOMAIN tasks) \ Expired]_vars

\* C24 amended: no call of _periodic_cleanup removes a task that is not
\* Completed or was completed 300 s ago or less, no call changes a task it
\* keeps, and a call that comes 30 s or more after the last cleanup time
\* removes every task that is Completed and more than 300 s old
C24_EffectiveSweepRemovesExactlyOld ==
  [][lastOp'.op = "PeriodicCleanup" =>
       /\ DOMAIN tasks' \subseteq DOMAIN tasks
       /\ (DOMAIN tasks) \ (DOMAIN tasks') \subseteq Expired
       /\ \A i \in DOMAIN tasks' : tasks'[i] = tasks[i]
       /\ (now - last_cleanup_time >= CleanupInterval
             => DOMAIN tasks' = (DOMAIN tasks) \ Expired)]_vars

\* C24 witness: a cleanup has just run and removed a task, and kept a task
\* that was completed exactly 300 s ago
C24_Witness ==
  /\ lastOp.op = "PeriodicCleanup"
  /\ last_cleanup_time = now
  /\ assigned \ DOMAIN tasks # {}
  /\ \E i \in DOMAIN tasks :
       tasks[i].status = "completed" /\ now - tasks[i].completion_time = Retention

\* C25: a call of _periodic_cleanup that comes less than 30 s after the last
\* cleanup time removes nothing, changes no task, emits nothing and leaves
\* the last cleanup time as it was
C25_EarlySweepNoOp ==
  [][(lastOp'.op = "PeriodicCleanup" /\ now - last_cleanup_time < CleanupInterval) =>
       /\ tasks' = tasks
       /\ last_cleanup_time' = last_cleanup_time
       /\ events' = <<>>]_vars

\* C25 witness: a cleanup was called less than 30 s after an earlier cleanup
\* that ran, while a Completed task older than 300 s is in the registry
C25_Witness ==
  /\ lastOp.op = "PeriodicCleanup"
  /\ last_cleanup_time > 1
  /\ now - last_cleanup_time < CleanupInterval
  /\ now > last_cleanup_time
  /\ Expired # {}

\* C26: with the clock advancing and the cleanup timer firing, every task
\* that is Completed (early enough for the modelled clock to pass its
\* retention time) is eventually out of the registry, although nobody calls
\* remove_task or clear_completed; the task is told from a later task under
\* the same id by its completion time
C26_CompletedEventuallyRemoved ==
  \A i \in Ids : \A c \in {1 + k * LiveStep : k \in 0..(LiveTicks - 1)} :
    (/\ i \in DOMAIN tasks
     /\ tasks[i].status = "completed"
     /\ tasks[i].completion_time = c)
      ~> ~(i \in DOMAIN tasks /\ tasks[i].completion_time = c)

\* C27: whenever the mode of a task goes from automatic to manual, the task
\* has no armed timer and is_auto_running is False in the state the mode has
\* changed in: the timer is stopped before or with the change of the mode,
\* and there is no state with manual mode and the timer still armed
C27_DisarmBeforeModeFlip ==
  [][\A i \in DOMAIN tasks \cap DOMAIN tasks' :
       (tasks[i].progress_mode = "automatic" /\ tasks'[i].progress_mode = "manual")
         => (tasks'[i].timer \notin ActiveTimers /\ ~tasks'[i].is_auto_running)]_vars

\* C28: an accepted update_progress (task found, manual mode or force) on a
\* created task with a clamped value above 0 stamps start_time and takes the
\* task out of created: to running, and on to completed within the same call
\* when the value is 1.0; with a clamped value of 0 the task stays created
\* with start_time None; on a running task the status stays running or
\* becomes completed
C28_FirstProgressStarts ==
  [][\A id \in Ids, v \in Values, f \in BOOLEAN :
       (UpdateProgress(id, v, f) /\ id \in DOMAIN tasks /\ (f \/ is_manual_mode(tasks[id])))
       => LET p == IF v < 0 THEN 0 ELSE IF v > One THEN One ELSE v
          IN /\ id \in DOMAIN tasks'
             /\ (tasks[id].status = "created" /\ p > 0)
                  => /\ tasks'[id].start_time = now
                     /\ tasks'[id].status = (IF p >= One THEN "completed" ELSE "running")
             /\ (tasks[id].status = "created" /\ p = 0)
                  => /\ tasks'[id].status = "created"
                     /\ tasks'[id].start_time = NoTime
             /\ tasks[id].status = "running"
                  => tasks'[id].status \in {"running", "completed"}]_vars

\* C28 witness: an accepted update with a value between 0 and 1 was the
\* first update of a task, which is running with the time of the update as
\* its start_time
C28_Witness ==
  /\ lastOp.op = "UpdateProgress" /\ result = TRUE
  /\ lastOp.id \in DOMAIN tasks
  /\ tasks[lastOp.id].update_count = 1
  /\ tasks[lastOp.id].status = "running"
  /\ tasks[lastOp.id].start_time = now
  /\ tasks[lastOp.id].progress > 0 /\ tasks[lastOp.id].progress < One
  /\ tasks[lastOp.id].timer = "none"

\* C29: once start_time of a task is set no later handler changes it, and
\* once completion_time is set no later handler changes it (a create_task
\* that puts a new task under the id is not a write to the old task)
C29_TimestampsWrittenOnce ==
  [][lastOp'.op # "CreateTask" =>
       \A i \in DOMAIN tasks \cap DOMAIN tasks' :
         /\ tasks[i].start_time # NoTime => tasks'[i].start_time = tasks[i].start_time
         /\ tasks[i].completion_time # NoTime
              => tasks'[i].completion_time = tasks[i].completion_time]_vars

\* C30: a timeout that reaches _update_auto_progress for an id that is not
\* in the registry, or for a task that is completed or has is_auto_running
\* False, changes no task (no field, update_count included) and emits no
\* signal
C30_LateTickNoOp ==
  [][(/\ lastOp'.op \in {"AutoTick", "LateTick"}
      /\ \/ lastOp'.id \notin DOMAIN tasks
         \/ is_completed(tasks[lastOp'.id])
         \/ ~tasks[lastOp'.id].is_auto_running)
     => (tasks' = tasks /\ events' = <<>>)]_vars

\* C30 witness: a timeout was delivered for a running automatic task below
\* 1.0 whose timer had been stopped, and the task has not been updated
C30_Witness ==
  /\ lastOp.op = "LateTick"
  /\ lastOp.value > 0
  /\ lastOp.id \in DOMAIN tasks
  /\ tasks[lastOp.id].status = "running"
  /\ is_automatic_mode(tasks[lastOp.id])
  /\ ~tasks[lastOp.id].is_auto_running
  /\ IsDisarmed(lastOp.id)
  /\ tasks[lastOp.id].progress < One
  /\ tasks[lastOp.id].update_count = 0

\* C31: stop_auto_progress_for_task on a task that is in the registry and
\* not armed returns True and changes nothing; after any stop on a task a
\* second stop would change nothing; start_auto_progress_for_task on a task
\* that is armed returns True and changes nothing, the timer included
C31_StartStopIdempotent ==
  [][/\ \A id \in DOMAIN tasks :
          (StopAutoProgressForTask(id) /\ ~tasks[id].is_auto_running /\ tasks[id].timer \notin ActiveTimers)
            => (result' = TRUE /\ tasks' = tasks)
     /\ \A id \in DOMAIN tasks :
          StopAutoProgressForTask(id)
            => (result' = TRUE /\ _stop_auto_progress(tasks', id).tasks = tasks')
     /\ \A id \in DOMAIN tasks :
          (StartAutoProgressForTask(id) /\ tasks[id].is_auto_running)
            => (result' = TRUE /\ tasks' = tasks)]_vars

\* C32: a timeout of the manager's task timer on an armed task that is not
\* completed stores min(1.0, progress + increment), which is not below the
\* old progress, and has the effects of update_progress with that value and
\* force: update_count goes up by one, taskUpdated is emitted exactly when
\* the change exceeds 0.001, and at 1.0 the task is completed and
\* taskCompleted emitted
C32_TickIsForcedUpdate ==
  [][(/\ lastOp'.op = "AutoTick"
      /\ lastOp'.id \in DOMAIN tasks
      /\ ~is_completed(tasks[lastOp'.id])
      /\ tasks[lastOp'.id].is_auto_running)
     => LET id == lastOp'.id
            old == tasks[id].progress
            new == Min(One, old + lastOp'.value)
            u == update_progress(tasks, id, new, TRUE)
        IN /\ lastOp'.value >= 0
           /\ id \in DOMAIN tasks'
           /\ tasks'[id].progress = new
           /\ new >= old
           /\ tasks'[id].update_count = tasks[id].update_count + 1
           /\ Emitted(events', "TaskUpdated", id) <=> (new - old > Epsilon)
           /\ (new >= One) => (is_completed(tasks'[id]) /\ Emitted(events', "TaskCompleted", id))
           /\ (new < One) => ~Emitted(events', "TaskCompleted", id)
           /\ tasks' = u.tasks
           /\ events' = u.events]_vars

\* C32 witness: a timeout of the task timer has raised the progress of an
\* armed task by its increment and emitted taskUpdated
C32_Witness ==
  /\ lastOp.op = "AutoTick"
  /\ lastOp.value > 0
  /\ lastOp.id \in DOMAIN tasks
  /\ tasks[lastOp.id].is_auto_running
  /\ tasks[lastOp.id].progress = lastOp.value
  /\ tasks[lastOp.id].update_count = 1
  /\ Emitted(events, "TaskUpdated", lastOp.id)

\* C33: an accepted update_progress (task found, manual mode or force) emits
\* taskUpdated, with the clamped progress, exactly when the old and the new
\* clamped progress differ by more than 0.001, and raises update_count by one
\* in either case; a rejected update_progress leaves update_count as it was
C33_UpdatedThreshold ==
  [][\A id \in DOMAIN tasks, v \in Values, f \in BOOLEAN :
       UpdateProgress(id, v, f)
       => LET p == IF v < 0 THEN 0 ELSE IF v > One THEN One ELSE v
              old == tasks[id].progress
              diff == IF old > p THEN old - p ELSE p - old
          IN /\ id \in DOMAIN tasks'
             /\ (f \/ is_manual_mode(tasks[id]))
                  => /\ Emitted(events', "TaskUpdated", id) <=> (diff > Epsilon)
                     /\ \A k \in DOMAIN events' :
                          events'[k].type = "TaskUpdated"
                            => (events'[k].id = id /\ events'[k].progress = p)
                     /\ tasks'[id].update_count = tasks[id].update_count + 1
             /\ ~(f \/ is_manual_mode(tasks[id]))
                  => /\ tasks'[id].update_count = tasks[id].update_count
                     /\ events' = <<>>]_vars

\* C33 witness: an accepted update has changed the progress by exactly 0.001,
\* emitted nothing and counted
C33_Witness ==
  /\ lastOp.op = "UpdateProgress" /\ result = TRUE
  /\ lastOp.id \in DOMAIN tasks
  /\ lastOp.value = Epsilon
  /\ tasks[lastOp.id].progress = Epsilon
  /\ tasks[lastOp.id].update_count = 1
  /\ events = <<>>

\* C34: in every state a task whose status is completed has progress 1.0
C34_CompletedIsFull ==
  \A i \in DOMAIN tasks : is_completed(tasks[i]) => tasks[i].progress = One

\* C35: in every state a task has completion_time set exactly when its
\* status is completed
C35_CompletionTimeIffCompleted ==
  \A i \in DOMAIN tasks : (tasks[i].completion_time # NoTime) <=> is_completed(tasks[i])

\* C36: in every state is_auto_running of a task is True exactly when the
\* task holds a timer that is started and not stopped
C36_FlagIffActiveTimer ==
  \A i \in DOMAIN tasks : tasks[i].is_auto_running <=> (tasks[i].timer \in ActiveTimers)

\* C36 witness: an update has failed on an armed task; the task is failed,
\* its timer is stopped and is_auto_running is False
C36_Witness ==
  /\ lastOp.op = "UpdateProgress"
  /\ lastOp.value = BadValue
  /\ lastOp.id \in DOMAIN tasks
  /\ tasks[lastOp.id].status = "failed"
  /\ tasks[lastOp.id].timer = "stopped"
  /\ ~tasks[lastOp.id].is_auto_running

\* C37: with its timer firing with positive increments and nobody stopping,
\* switching or removing it, every task that is armed is eventually
\* completed, on whichever path it was armed
C37_ArmedEventuallyCompleted ==
  \A i \in Ids :
    (i \in DOMAIN tasks /\ tasks[i].is_auto_running)
      ~> (i \in DOMAIN tasks /\ is_completed(tasks[i]))

\* the operations that are given one task id
SingleTaskOps ==
  {"UpdateProgress", "CompleteTask", "SetTaskMode", "StartAutoProgressForTask",
   "StopAutoProgressForTask", "RemoveTask", "AutoTick", "WindowTick"}

\* C38: an operation on one task, its failure and the error handler included,
\* leaves every other task's fields and its membership in the registry as
\* they were
C38_OthersUnchanged ==
  [][lastOp'.op \in SingleTaskOps =>
       \A i \in (DOMAIN tasks \cup DOMAIN tasks') \ {lastOp'.id} :
         /\ i \in DOMAIN tasks /\ i \in DOMAIN tasks'
         /\ tasks'[i] = tasks[i]]_vars

\* an update with a value that is not a number has failed on one task while
\* another task of the registry is armed
C38_Witness ==
  /\ lastOp.op = "UpdateProgress" /\ lastOp.value = BadValue /\ lastOp.id \in DOMAIN tasks
  /\ tasks[lastOp.id].status = "failed"
  /\ \E i \in DOMAIN tasks \ {lastOp.id} : tasks[i].is_auto_running /\ tasks[i].status = "running"
====
